---- MODULE Spec2Model ----
(***************************************************************************)
(* pycox/datasets/from_rdatasets.py: the Rdatasets survival loaders       *)
(* (_Flchain, _Nwtco, _Gbsg, _Rotterdam), their download step, the local   *)
(* feather cache they read and write, and their processed transforms.      *)
(***************************************************************************)
EXTENDS Integers, Sequences, FiniteSets, TLC

\* file[d]: the cached file of dataset d (<<>>: none); info[d]: self.info of
\* its loader; lastOp: the last call; firstRaw[d]: the first raw table
\* returned since the file of d was last written; used: the datasets whose
\* loader has been called.
VARIABLES file, info, lastOp, firstRaw, used

vars == <<file, info, lastOp, firstRaw, used>>

\* Largest number of rows of a raw table drawn for the transforms.
MaxRows == 2

\* Largest number of datasets one run calls the loaders of.
MaxLoaders == 2

Datasets == {"flchain", "nwtco", "gbsg", "rotterdam"}

(***************************************************************************)
(* Cells, columns and tables (pandas DataFrame).                           *)
(***************************************************************************)
\* A cell: its kind, a numeric payload n and a text payload s.
IntCell(n) == [k |-> "int", n |-> n, s |-> ""]
FloatCell(n) == [k |-> "float", n |-> n, s |-> ""]
StrCell(s) == [k |-> "str", n |-> 0, s |-> s]
BoolCell(b) == [k |-> "bool", n |-> IF b THEN 1 ELSE 0, s |-> ""]
NaN == [k |-> "nan", n |-> 0, s |-> ""]

isna(c) == c.k = "nan"

Range(q) == {q[i] : i \in 1..Len(q)}

\* The sequence q without its elements that are in S, order kept.
RECURSIVE Without(_, _)
Without(q, S) ==
    IF q = <<>> THEN <<>>
    ELSE IF Head(q) \in S THEN Without(Tail(q), S)
    ELSE <<Head(q)>> \o Without(Tail(q), S)

\* pd.read_csv's dtype of a parsed column.
InferDtype(cells) ==
    IF \E c \in cells : c.k = "str" THEN "object"
    ELSE IF \E c \in cells : c.k \in {"float", "nan"} THEN "float64"
    ELSE IF cells # {} /\ \A c \in cells : c.k = "bool" THEN "bool"
    ELSE "int64"

\* A DataFrame: ordered column names, a dtype per column, the index labels
\* and one record per row.
DataFrame(columns, rows) ==
    [columns |-> columns,
     dtypes |-> [c \in Range(columns) |-> InferDtype({rows[i][c] : i \in 1..Len(rows)})],
     index |-> [i \in 1..Len(rows) |-> i - 1],
     rows |-> rows]

\* df.drop(cols, axis=1)
drop(df, cols) ==
    LET keep == Without(df.columns, cols)
    IN  [columns |-> keep,
         dtypes |-> [c \in Range(keep) |-> df.dtypes[c]],
         index |-> df.index,
         rows |-> [i \in 1..Len(df.rows) |-> [c \in Range(keep) |-> df.rows[i][c]]]]

RECURSIVE Positions(_, _, _)
Positions(df, col, i) ==
    IF i > Len(df.rows) THEN <<>>
    ELSE IF isna(df.rows[i][col]) THEN Positions(df, col, i + 1)
    ELSE <<i>> \o Positions(df, col, i + 1)

\* df.loc[lambda x: x[col].isna() == False]
loc_notna(df, col) ==
    LET pos == Positions(df, col, 1)
    IN  [df EXCEPT !.index = [j \in 1..Len(pos) |-> df.index[pos[j]]],
                   !.rows = [j \in 1..Len(pos) |-> df.rows[pos[j]]]]

\* df.reset_index(drop=True)
reset_index(df) == [df EXCEPT !.index = [i \in 1..Len(df.rows) |-> i - 1]]

\* df.assign(col=cells): an existing column is replaced in place, a new one
\* is appended; cells[i] is the new cell of row i.
assign(df, col, dtype, cells) ==
    LET cols == IF col \in Range(df.columns) THEN df.columns
                ELSE Append(df.columns, col)
    IN  [columns |-> cols,
         dtypes |-> [c \in Range(cols) |-> IF c = col THEN dtype ELSE df.dtypes[c]],
         index |-> df.index,
         rows |-> [i \in 1..Len(df.rows) |->
                      [c \in Range(cols) |->
                          IF c = col THEN cells[i] ELSE df.rows[i][c]]]]

\* series - k
Minus(c, k) ==
    IF c.k = "nan" THEN NaN
    ELSE IF c.k = "float" THEN FloatCell(c.n - k)
    ELSE IntCell(c.n - k)

\* astype('float32') of one cell: booleans become 1.0 and 0.0; the numbers
\* of the cells drawn here are exact in float32.
Float32(c) == IF c.k = "nan" THEN NaN ELSE FloatCell(c.n)

\* df[col] = df[col].astype(dtype) for every col of cols
astype(df, cols, dtype) ==
    [df EXCEPT !.dtypes = [c \in DOMAIN df.dtypes |->
                              IF c \in cols THEN dtype ELSE df.dtypes[c]],
               !.rows = [i \in 1..Len(df.rows) |->
                            [c \in DOMAIN df.dtypes |->
                                IF c \in cols /\ dtype = "float32"
                                THEN Float32(df.rows[i][c])
                                ELSE df.rows[i][c]]]]

\* The cells of column col, row by row.
Column(df, col) == [i \in 1..Len(df.rows) |-> df.rows[i][col]]

(***************************************************************************)
(* The datasets: names, label columns, recorded checksums.                 *)
(***************************************************************************)
col_duration(d) ==
    CASE d = "flchain" -> "futime"
      [] d = "nwtco" -> "edrel"
      [] d = "gbsg" -> "rfstime"
      [] d = "rotterdam" -> "rtime"

col_event(d) ==
    CASE d = "flchain" -> "death"
      [] d = "nwtco" -> "rel"
      [] d = "gbsg" -> "status"
      [] d = "rotterdam" -> "recur"

\* A slip: the checksums of two datasets exchanged.
_checksum_swapped(d) ==
    CASE d = "flchain" -> "5aa3de698dadb60154dd59196796e382739ff56dc6cbd39cfc2fda50d69d118e"
      [] d = "nwtco" -> "ec12748a1aa5790457c09793387337bb03b1dc45a22a2d58a8c2b9ad1f2648dd"
      [] d = "gbsg" -> "7c30775ae615b0e56e6a5060413fa5bccd4716b199ac858fe84d26d7651a52a1"
      [] d = "rotterdam" -> "df5a80dded44f990c002e00cee6fd96eeaf4c6beb66e08b2f4f5a1710bc37ba4"

_checksum(d) ==
    CASE d = "flchain" -> "ec12748a1aa5790457c09793387337bb03b1dc45a22a2d58a8c2b9ad1f2648dd"
      [] d = "nwtco" -> "5aa3de698dadb60154dd59196796e382739ff56dc6cbd39cfc2fda50d69d118e"
      [] d = "gbsg" -> "df5a80dded44f990c002e00cee6fd96eeaf4c6beb66e08b2f4f5a1710bc37ba4"
      [] d = "rotterdam" -> "7c30775ae615b0e56e6a5060413fa5bccd4716b199ac858fe84d26d7651a52a1"

\* The columns of each raw table, in the order of the CSV file.
FlchainColumns ==
    <<"Unnamed: 0", "age", "sex", "sample.yr", "kappa", "lambda", "flc.grp",
      "creatinine", "mgus", "futime", "death", "chapter">>

NwtcoColumns ==
    <<"Unnamed: 0", "seqno", "instit", "histol", "stage", "study", "rel",
      "edrel", "age", "in.subcohort">>

GbsgColumns == <<"Unnamed: 0", "pid", "age", "rfstime", "status">>

RotterdamColumns ==
    <<"Unnamed: 0", "pid", "year", "age", "chemo", "rtime", "recur", "dtime", "death">>

Columns(d) ==
    CASE d = "flchain" -> FlchainColumns
      [] d = "nwtco" -> NwtcoColumns
      [] d = "gbsg" -> GbsgColumns
      [] d = "rotterdam" -> RotterdamColumns

(***************************************************************************)
(* The processed transforms of the four read_df methods.                   *)
(***************************************************************************)
\* _DatasetLoader._label_cols_at_end: the duration and event columns last.
_label_cols_at_end(d, df) ==
    LET col_label == <<col_duration(d), col_event(d)>>
    IN  [df EXCEPT !.columns = Without(df.columns, Range(col_label)) \o col_label]

FlchainCategorical == {"sample.yr", "flc.grp"}

\* A slip: the rows without creatinine are kept.
FlchainProcess_unfiltered(df) ==
    LET df1 == drop(df, {"chapter", "Unnamed: 0"})
        df4 == assign(df1, "sex", "bool",
                      [i \in 1..Len(df1.rows) |->
                          BoolCell(df1.rows[i]["sex"] = StrCell("M"))])
        df5 == astype(df4, FlchainCategorical, "category")
    IN  astype(df5, Range(df5.columns) \ FlchainCategorical, "float32")

FlchainProcess(df) ==
    LET df1 == drop(df, {"chapter", "Unnamed: 0"})
        df2 == loc_notna(df1, "creatinine")
        df3 == reset_index(df2)
        df4 == assign(df3, "sex", "bool",
                      [i \in 1..Len(df3.rows) |->
                          BoolCell(df3.rows[i]["sex"] = StrCell("M"))])
        df5 == astype(df4, FlchainCategorical, "category")
    IN  astype(df5, Range(df5.columns) \ FlchainCategorical, "float32")

\* A slip: study_4 is shifted by 4, not by 3.
NwtcoProcess_shift4(df) ==
    LET n == Len(df.rows)
        a1 == assign(df, "instit_2", df.dtypes["instit"],
                     [i \in 1..n |-> Minus(df.rows[i]["instit"], 1)])
        a2 == assign(a1, "histol_2", df.dtypes["histol"],
                     [i \in 1..n |-> Minus(df.rows[i]["histol"], 1)])
        a3 == assign(a2, "study_4", df.dtypes["study"],
                     [i \in 1..n |-> Minus(df.rows[i]["study"], 4)])
        a4 == assign(a3, "stage", "category", Column(df, "stage"))
        df1 == drop(a4, {"Unnamed: 0", "seqno", "instit", "histol", "study"})
        df2 == astype(df1, Range(df1.columns) \ {"stage"}, "float32")
    IN  _label_cols_at_end("nwtco", df2)

NwtcoProcess(df) ==
    LET n == Len(df.rows)
        a1 == assign(df, "instit_2", df.dtypes["instit"],
                     [i \in 1..n |-> Minus(df.rows[i]["instit"], 1)])
        a2 == assign(a1, "histol_2", df.dtypes["histol"],
                     [i \in 1..n |-> Minus(df.rows[i]["histol"], 1)])
        a3 == assign(a2, "study_4", df.dtypes["study"],
                     [i \in 1..n |-> Minus(df.rows[i]["study"], 3)])
        a4 == assign(a3, "stage", "category", Column(df, "stage"))
        df1 == drop(a4, {"Unnamed: 0", "seqno", "instit", "histol", "study"})
        df2 == astype(df1, Range(df1.columns) \ {"stage"}, "float32")
    IN  _label_cols_at_end("nwtco", df2)

\* A slip: the censored rows (status 0) are removed with the columns.
GbsgProcess_events(df) ==
    LET out == drop(df, {"Unnamed: 0", "pid"})
        pos == SelectSeq([i \in 1..Len(out.rows) |-> i],
                         LAMBDA i : out.rows[i]["status"].n = 1)
    IN  [out EXCEPT !.index = [j \in 1..Len(pos) |-> out.index[pos[j]]],
                    !.rows = [j \in 1..Len(pos) |-> out.rows[pos[j]]]]

GbsgProcess(df) == drop(df, {"Unnamed: 0", "pid"})

RotterdamProcess(df) ==
    drop(df, {"Unnamed: 0", "pid", "year", "dtime", "death", "chemo"})

Process(d, df) ==
    CASE d = "flchain" -> FlchainProcess(df)
      [] d = "nwtco" -> NwtcoProcess(df)
      [] d = "gbsg" -> GbsgProcess(df)
      [] d = "rotterdam" -> RotterdamProcess(df)

(***************************************************************************)
(* Raw tables as pd.read_csv parses them: row i of the CSV carries the     *)
(* row name i in 'Unnamed: 0'; the cells that the transforms branch or     *)
(* compute on vary, the other cells are fixed.                             *)
(***************************************************************************)
FlchainRow(i, sex, creatinine) ==
    [c \in Range(FlchainColumns) |->
        CASE c = "Unnamed: 0" -> IntCell(i)
          [] c = "age" -> IntCell(60 + i)
          [] c = "sex" -> StrCell(sex)
          [] c = "sample.yr" -> IntCell(1997)
          [] c = "kappa" -> FloatCell(5)
          [] c = "lambda" -> FloatCell(4)
          [] c = "flc.grp" -> IntCell(10)
          [] c = "creatinine" -> creatinine
          [] c = "mgus" -> IntCell(0)
          [] c = "futime" -> IntCell(80 + i)
          [] c = "death" -> IntCell(1)
          [] c = "chapter" -> StrCell("Circulatory")]

NwtcoRow(i, instit, histol, study) ==
    [c \in Range(NwtcoColumns) |->
        CASE c = "Unnamed: 0" -> IntCell(i)
          [] c = "seqno" -> IntCell(i)
          [] c = "instit" -> IntCell(instit)
          [] c = "histol" -> IntCell(histol)
          [] c = "stage" -> IntCell(1)
          [] c = "study" -> IntCell(study)
          [] c = "rel" -> IntCell(0)
          [] c = "edrel" -> IntCell(6000 + i)
          [] c = "age" -> IntCell(20 + i)
          [] c = "in.subcohort" -> BoolCell(FALSE)]

GbsgRow(i, status) ==
    [c \in Range(GbsgColumns) |->
        CASE c = "Unnamed: 0" -> IntCell(i)
          [] c = "pid" -> IntCell(130 + i)
          [] c = "age" -> IntCell(40 + i)
          [] c = "rfstime" -> IntCell(1800 + i)
          [] c = "status" -> IntCell(status)]

RotterdamRow(i, recur) ==
    [c \in Range(RotterdamColumns) |->
        CASE c = "Unnamed: 0" -> IntCell(i)
          [] c = "pid" -> IntCell(i)
          [] c = "year" -> IntCell(1992)
          [] c = "age" -> IntCell(70 + i)
          [] c = "chemo" -> IntCell(0)
          [] c = "rtime" -> IntCell(1700 + i)
          [] c = "recur" -> IntCell(recur)
          [] c = "dtime" -> IntCell(1700 + i)
          [] c = "death" -> IntCell(0)]

\* The varying cells of one row.
Kinds(d) ==
    CASE d = "flchain" -> {"M", "F"} \X {FloatCell(1), NaN}
      [] d = "nwtco" -> {1, 2} \X {1, 2} \X {3, 4}
      [] d = "gbsg" -> {<<0>>, <<1>>}
      [] d = "rotterdam" -> {<<0>>, <<1>>}

Row(d, i, kind) ==
    CASE d = "flchain" -> FlchainRow(i, kind[1], kind[2])
      [] d = "nwtco" -> NwtcoRow(i, kind[1], kind[2], kind[3])
      [] d = "gbsg" -> GbsgRow(i, kind[1])
      [] d = "rotterdam" -> RotterdamRow(i, kind[1])

\* The raw table whose rows have the given kinds.
RawTable(d, kinds) ==
    DataFrame(Columns(d), [i \in 1..Len(kinds) |-> Row(d, i, kinds[i])])

\* Every raw table of dataset d of at most MaxRows rows.
RawTables(d) ==
    {RawTable(d, kinds) : kinds \in UNION {[1..n -> Kinds(d)] : n \in 0..MaxRows}}

(***************************************************************************)
(* The feather file: df.to_feather(path) and pd.read_feather(path).        *)
(***************************************************************************)
\* The file holds the schema, then each column's cells, then a footer.
to_feather(df) ==
    [schema |-> [j \in 1..Len(df.columns) |->
                    <<df.columns[j], df.dtypes[df.columns[j]]>>],
     nrows |-> Len(df.rows),
     data |-> [j \in 1..Len(df.columns) |-> Column(df, df.columns[j])],
     footer |-> TRUE]

\* The table a complete file holds; the index is not stored.
read_feather(bytes) ==
    LET names == [j \in 1..Len(bytes.schema) |-> bytes.schema[j][1]]
        at(c) == CHOOSE j \in 1..Len(names) : names[j] = c
    IN  [columns |-> names,
         dtypes |-> [c \in Range(names) |-> bytes.schema[at(c)][2]],
         index |-> [i \in 1..bytes.nrows |-> i - 1],
         rows |-> [i \in 1..bytes.nrows |->
                      [c \in Range(names) |-> bytes.data[at(c)][i]]]]

\* A file cut short: the footer, with the row count, and the cells are lost.
Truncated(bytes) ==
    [bytes EXCEPT !.footer = FALSE, !.nrows = 0,
                  !.data = [j \in 1..Len(bytes.schema) |-> <<>>]]

(***************************************************************************)
(* The mirror (raw.githubusercontent.com/vincentarelbundock/Rdatasets):    *)
(* the registry datasets.csv and the CSV files it may serve.               *)
(***************************************************************************)
RegistryUrl == <<"datasets.csv">>

CsvUrl(package, item) == <<"csv", package, item>>

\* The table of each dataset whose cached file has the recorded checksum.
Recorded(d) ==
    CASE d = "flchain" -> RawTable(d, <<<<"M", FloatCell(1)>>, <<"F", NaN>>>>)
      [] d = "nwtco" -> RawTable(d, <<<<1, 2, 3>>, <<2, 1, 4>>>>)
      [] d = "gbsg" -> RawTable(d, <<<<0>>, <<1>>>>)
      [] d = "rotterdam" -> RawTable(d, <<<<0>>, <<1>>>>)

\* A later revision of the same CSV on the mirror.
Revised(d) ==
    CASE d = "flchain" -> RawTable(d, <<<<"F", FloatCell(1)>>>>)
      [] d = "nwtco" -> RawTable(d, <<<<2, 2, 4>>>>)
      [] d = "gbsg" -> RawTable(d, <<<<1>>>>)
      [] d = "rotterdam" -> RawTable(d, <<<<1>>>>)

\* An item of another package that shares the name of a survival item.
OtherTable ==
    DataFrame(<<"Unnamed: 0", "x">>,
              <<[c \in {"Unnamed: 0", "x"} |-> IntCell(1)]>>)

\* What pd.read_csv(url) may parse when the request succeeds.
Serve(url) ==
    IF \E d \in Datasets : url = CsvUrl("survival", d)
    THEN LET d == CHOOSE d \in Datasets : url = CsvUrl("survival", d)
         IN  {Recorded(d), Revised(d)}
    ELSE {OtherTable}

RegistryRow(package, item) ==
    [Package |-> package, Item |-> item, CSV |-> CsvUrl(package, item)]

\* The rows datasets.csv may hold; an item has at most one row per package.
RegistryRows ==
    {RegistryRow("survival", "flchain"), RegistryRow("survival", "nwtco"),
     RegistryRow("datasets", "flchain")}

\* The registries served: complete, without the survival item flchain (the
\* other package still has an flchain), and without nwtco.
Registries ==
    {RegistryRows,
     {RegistryRow("survival", "nwtco"), RegistryRow("datasets", "flchain")},
     {RegistryRow("survival", "flchain")}}

(***************************************************************************)
(* The download step.  An outcome names how the call ended (status), the   *)
(* requests it made in order (net) and what it produced.                   *)
(***************************************************************************)
\* A slip: the registry is not filtered by package.
download_any_package(package, name) ==
    {[status |-> "TransportFailure", net |-> <<RegistryUrl>>, registry |-> <<>>,
      df |-> <<>>, info |-> <<>>]}
    \cup UNION {
        IF ~ \E r \in reg : r.Item = name
        THEN {[status |-> "NotFound", net |-> <<RegistryUrl>>, registry |-> <<reg>>,
               df |-> <<>>, info |-> <<>>]}
        ELSE LET row == CHOOSE r \in reg : r.Item = name
                 url == row.CSV
             IN  {[status |-> "TransportFailure", net |-> <<RegistryUrl, url>>,
                   registry |-> <<reg>>, df |-> <<>>, info |-> <<>>]}
                 \cup {[status |-> "ok", net |-> <<RegistryUrl, url>>,
                        registry |-> <<reg>>, df |-> <<t>>, info |-> <<row>>]
                       : t \in Serve(url)}
        : reg \in Registries}

\* download_from_rdatasets(package, name): every outcome the mirror allows;
\* registry |-> the datasets.csv that was served, if the request succeeded.
download_from_rdatasets(package, name) ==
    {[status |-> "TransportFailure", net |-> <<RegistryUrl>>, registry |-> <<>>,
      df |-> <<>>, info |-> <<>>]}
    \cup UNION {
        LET datasets == {r \in reg : r.Package = package}
        IN  IF ~ \E r \in datasets : r.Item = name
            THEN {[status |-> "NotFound", net |-> <<RegistryUrl>>, registry |-> <<reg>>,
                   df |-> <<>>, info |-> <<>>]}
            ELSE LET row == CHOOSE r \in datasets : r.Item = name
                     url == row.CSV
                 IN  {[status |-> "TransportFailure", net |-> <<RegistryUrl, url>>,
                       registry |-> <<reg>>, df |-> <<>>, info |-> <<>>]}
                     \cup {[status |-> "ok", net |-> <<RegistryUrl, url>>,
                            registry |-> <<reg>>, df |-> <<t>>, info |-> <<row>>]
                           : t \in Serve(url)}
        : reg \in Registries}

\* A slip: the table is fetched and never written.
Rdatasets_download_unwritten(name) ==
    {[status |-> o.status, net |-> o.net, registry |-> o.registry, info |-> o.info,
      write |-> <<>>]
     : o \in download_from_rdatasets("survival", name)}

\* _DatasetRdatasetsSurvival._download: write |-> the file written, if any.
Rdatasets_download(name) ==
    {[status |-> o.status, net |-> o.net, registry |-> o.registry, info |-> o.info,
      write |-> IF o.status = "ok" THEN <<to_feather(o.df[1])>> ELSE <<>>]
     : o \in download_from_rdatasets("survival", name)}

\* A slip: a failed request is made once more before the call gives up.
Fixed_download_retry(name) ==
    LET url == CsvUrl("survival", name)
    IN  {[status |-> "TransportFailure", net |-> <<url, url>>, registry |-> <<>>,
          info |-> <<>>, write |-> <<>>]}
        \cup {[status |-> "ok", net |-> n, registry |-> <<>>, info |-> <<>>,
               write |-> <<to_feather(t)>>]
              : t \in Serve(url), n \in {<<url>>, <<url, url>>}}

\* A slip: the table is transformed before it is written.
Fixed_download_processed(name) ==
    LET url == CsvUrl("survival", name)
    IN  {[status |-> "TransportFailure", net |-> <<url>>, registry |-> <<>>,
          info |-> <<>>, write |-> <<>>]}
        \cup {[status |-> "ok", net |-> <<url>>, registry |-> <<>>, info |-> <<>>,
               write |-> <<to_feather(Process(name, t))>>] : t \in Serve(url)}

\* _Gbsg._download and _Rotterdam._download: one request to a fixed URL.
Fixed_download(name) ==
    LET url == CsvUrl("survival", name)
    IN  {[status |-> "TransportFailure", net |-> <<url>>, registry |-> <<>>,
          info |-> <<>>, write |-> <<>>]}
        \cup {[status |-> "ok", net |-> <<url>>, registry |-> <<>>, info |-> <<>>,
               write |-> <<to_feather(t)>>] : t \in Serve(url)}

Gbsg_download == Fixed_download("gbsg")

Rotterdam_download == Fixed_download("rotterdam")

_download(d) ==
    CASE d \in {"flchain", "nwtco"} -> Rdatasets_download(d)
      [] d = "gbsg" -> Gbsg_download
      [] d = "rotterdam" -> Rotterdam_download

\* The outcomes of self._download() of each dataset, tabulated.
DownloadOutcomes == [d \in Datasets |-> _download(d)]

\* The (package, name) pairs download_from_rdatasets is called with directly.
LookupCalls == {<<"survival", "flchain">>, <<"datasets", "nwtco">>}

LookupOutcomes == [c \in LookupCalls |-> download_from_rdatasets(c[1], c[2])]

\* The file of each dataset that has the recorded checksum.
RecordedFile == [d \in Datasets |-> to_feather(Recorded(d))]

(***************************************************************************)
(* _DatasetLoader: the generic loader over the cached file.                *)
(***************************************************************************)
exists(d) == file[d] # <<>>

\* The loader of d is called: one of at most MaxLoaders.
Use(d) ==
    /\ d \in used \/ Cardinality(used) < MaxLoaders
    /\ used' = used \cup {d}

\* The sha256 of the file of each dataset as the mirror served it when the
\* checksums were recorded.
Digest(d) ==
    CASE d = "flchain" -> "ec12748a1aa5790457c09793387337bb03b1dc45a22a2d58a8c2b9ad1f2648dd"
      [] d = "nwtco" -> "5aa3de698dadb60154dd59196796e382739ff56dc6cbd39cfc2fda50d69d118e"
      [] d = "gbsg" -> "df5a80dded44f990c002e00cee6fd96eeaf4c6beb66e08b2f4f5a1710bc37ba4"
      [] d = "rotterdam" -> "7c30775ae615b0e56e6a5060413fa5bccd4716b199ac858fe84d26d7651a52a1"

\* hashlib's sha256 of a file: no other content has the digest of one of
\* those files.
Sha256(bytes) ==
    IF \E d \in Datasets : bytes = RecordedFile[d]
    THEN Digest(CHOOSE d \in Datasets : bytes = RecordedFile[d])
    ELSE "digest of no recorded file"

\* pd.read_feather(self.path) of the cached file, after a call that made
\* the given requests.
Load(cached, downloads, o, newinfo) ==
    [status |-> IF cached # <<>> /\ cached[1].footer THEN "ok" ELSE "IOError",
     downloads |-> downloads, net |-> o.net, registry |-> o.registry,
     file |-> cached, info |-> newinfo,
     df |-> IF cached # <<>> /\ cached[1].footer
            THEN <<read_feather(cached[1])>> ELSE <<>>]

NoRequest == [net |-> <<>>, registry |-> <<>>]

\* _DatasetLoader.read_df on a path that holds cached (<<>>: no file):
\* download when the file is absent, then load it.  Whatever _download
\* wrote stays on disk, also when it raised.
LoaderRead(d, cached) ==
    IF cached # <<>>
    THEN {Load(cached, 0, NoRequest, info[d])}
    ELSE {IF o.status = "ok"
          THEN Load(o.write, 1, o, IF o.info # <<>> THEN o.info ELSE info[d])
          ELSE [status |-> o.status, downloads |-> 1, net |-> o.net,
                registry |-> o.registry, file |-> o.write, info |-> info[d],
                df |-> <<>>]
          : o \in DownloadOutcomes[d]}

super_read_df(d) == LoaderRead(d, file[d])

\* The last call: what was called, how it ended, what it requested and
\* returned.  note |-> "again" on a raw read_df when a raw table had been
\* returned since the file was last written, "deleted" on a read_df that
\* directly follows a delete_local_copy of the same dataset, "fresh" on a
\* check_integrity that directly follows a read_df that downloaded the same
\* dataset.
NoOp ==
    [op |-> "init", package |-> "", name |-> "", processed |-> FALSE, status |-> "ok",
     downloads |-> 0, net |-> <<>>, registry |-> <<>>, df |-> <<>>, flag |-> <<>>,
     note |-> ""]

\* The rest of read_df(processed) once the loader's read ended as r: the
\* transform, and the return.
ReadWith(d, processed, outcomes) ==
    \E r \in outcomes :
        LET df == IF r.status = "ok" /\ processed
                  THEN <<Process(d, r.df[1])>> ELSE r.df
        IN  /\ Use(d)
            /\ file' = [file EXCEPT ![d] = r.file]
            /\ info' = [info EXCEPT ![d] = r.info]
            /\ lastOp' = [NoOp EXCEPT !.op = "read_df", !.name = d,
                             !.processed = processed, !.status = r.status,
                             !.downloads = r.downloads, !.net = r.net,
                             !.registry = r.registry, !.df = df,
                             !.note = IF r.status = "ok" /\ ~processed
                                         /\ firstRaw[d] # <<>>
                                      THEN "again"
                                      ELSE IF lastOp.op = "delete_local_copy"
                                              /\ lastOp.name = d
                                      THEN "deleted" ELSE ""]
            /\ firstRaw' = IF r.status = "ok" /\ ~processed /\ firstRaw[d] = <<>>
                           THEN [firstRaw EXCEPT ![d] = df] ELSE firstRaw

\* A slip: the file is fetched anew on every read.
read_df_refetched(d, processed) == ReadWith(d, processed, LoaderRead(d, <<>>))

\* A slip: a file with another checksum than recorded is fetched anew.
read_df_verified(d, processed) ==
    ReadWith(d, processed,
             LoaderRead(d, IF exists(d) /\ Sha256(file[d][1]) # _checksum(d)
                           THEN <<>> ELSE file[d]))

\* read_df(processed) of dataset d.
read_df(d, processed) == ReadWith(d, processed, super_read_df(d))

Flchain_read_df == \E processed \in BOOLEAN : read_df("flchain", processed)

Nwtco_read_df == \E processed \in BOOLEAN : read_df("nwtco", processed)

Gbsg_read_df == \E processed \in BOOLEAN : read_df("gbsg", processed)

Rotterdam_read_df == \E processed \in BOOLEAN : read_df("rotterdam", processed)

\* check_integrity(): the checksum of the cached file against _checksum.
check_integrity ==
    \E d \in Datasets :
        /\ Use(d)
        /\ lastOp' = [NoOp EXCEPT !.op = "check_integrity", !.name = d,
                         !.status = IF exists(d) THEN "ok" ELSE "IOError",
                         !.flag = IF exists(d)
                                  THEN <<Sha256(file[d][1]) = _checksum(d)>>
                                  ELSE <<>>,
                         !.note = IF lastOp.op = "read_df" /\ lastOp.name = d
                                     /\ lastOp.downloads = 1 /\ lastOp.status = "ok"
                                  THEN "fresh" ELSE ""]
        /\ UNCHANGED <<file, info, firstRaw>>

\* delete_local_copy(): remove the cached file if present.
delete_local_copy ==
    \E d \in Datasets :
        /\ Use(d)
        /\ file' = [file EXCEPT ![d] = <<>>]
        /\ firstRaw' = [firstRaw EXCEPT ![d] = <<>>]
        /\ lastOp' = [NoOp EXCEPT !.op = "delete_local_copy", !.name = d]
        /\ UNCHANGED info

\* A direct call of download_from_rdatasets(package, name).
Lookup ==
    \E c \in LookupCalls :
        \E o \in LookupOutcomes[c] :
            /\ lastOp' = [NoOp EXCEPT !.op = "download_from_rdatasets",
                             !.package = c[1], !.name = c[2], !.status = o.status,
                             !.net = o.net, !.registry = o.registry, !.df = o.df]
            /\ UNCHANGED <<file, info, firstRaw, used>>

\* The environment cuts a complete cached file short (a failed disk, a
\* killed copy): the file is there, its content is not what was written.
Damage ==
    \E d \in Datasets :
        /\ exists(d) /\ file[d][1].footer
        /\ file' = [file EXCEPT ![d] = <<Truncated(file[d][1])>>]
        /\ firstRaw' = [firstRaw EXCEPT ![d] = <<>>]
        /\ lastOp' = [NoOp EXCEPT !.op = "damage", !.name = d]
        /\ UNCHANGED <<info, used>>

Init ==
    /\ file = [d \in Datasets |-> <<>>]
    /\ info = [d \in Datasets |-> <<>>]
    /\ lastOp = NoOp
    /\ firstRaw = [d \in Datasets |-> <<>>]
    /\ used = {}

Next ==
    \/ Flchain_read_df
    \/ Nwtco_read_df
    \/ Gbsg_read_df
    \/ Rotterdam_read_df
    \/ check_integrity
    \/ delete_local_copy
    \/ Lookup
    \/ Damage

Spec == Init /\ [][Next]_vars

(***************************************************************************)
(* The transforms on their own: the cache of one dataset holds any raw     *)
(* table of at most MaxRows rows and the dataset is read from the cache.   *)
(***************************************************************************)
InitCached ==
    \E d \in Datasets : \E t \in RawTables(d) :
        /\ file = [x \in Datasets |-> IF x = d THEN <<to_feather(t)>> ELSE <<>>]
        /\ info = [x \in Datasets |-> <<>>]
        /\ lastOp = NoOp
        /\ firstRaw = [x \in Datasets |-> <<>>]
        /\ used = {d}

Flchain_cached == exists("flchain") /\ Flchain_read_df

Nwtco_cached == exists("nwtco") /\ Nwtco_read_df

Gbsg_cached == exists("gbsg") /\ Gbsg_read_df

Rotterdam_cached == exists("rotterdam") /\ Rotterdam_read_df

NextCached == Flchain_cached \/ Nwtco_cached \/ Gbsg_cached \/ Rotterdam_cached

SpecCached == InitCached /\ [][NextCached]_vars

(***************************************************************************)
(* The claims.  A step is told by the call lastOp' records: every action   *)
(* writes its own call there.                                              *)
(***************************************************************************)
IsRead(d) == lastOp'.op = "read_df" /\ lastOp'.name = d

IsDelete(d) == lastOp'.op = "delete_local_copy" /\ lastOp'.name = d

IsCheck(d) == lastOp'.op = "check_integrity" /\ lastOp'.name = d

NoRepeat(q) == \A i, j \in 1..Len(q) : q[i] = q[j] => i = j

\* C1 as claimed: after delete_local_copy the file does not exist; the
\* read_df that follows it performs exactly one download and the file
\* exists afterwards; and the read_df that follows a read_df of the same
\* dataset performs no download.
C1_Claimed ==
    [][\A d \in Datasets :
          /\ IsDelete(d) => file'[d] = <<>>
          /\ IsRead(d) /\ lastOp.op = "delete_local_copy" /\ lastOp.name = d =>
                lastOp'.downloads = 1 /\ file'[d] # <<>>
          /\ IsRead(d) /\ lastOp.op = "read_df" /\ lastOp.name = d =>
                lastOp'.downloads = 0]_vars

\* C1 amended: after delete_local_copy the file does not exist; a read_df on
\* an absent file calls _download exactly once, and the file exists
\* afterwards, holding a complete table the mirror served, exactly when that
\* download did not fail (no transport failure, no registry miss); a read_df
\* on a file that exists performs no download and no request.
C1_DeleteThenOneDownload ==
    [][\A d \in Datasets :
          /\ IsDelete(d) => file'[d] = <<>>
          /\ IsRead(d) /\ file[d] = <<>> =>
                /\ lastOp'.downloads = 1
                /\ file'[d] # <<>> <=>
                      lastOp'.status \notin {"TransportFailure", "NotFound"}
                /\ file'[d] # <<>> =>
                      /\ lastOp'.status = "ok"
                      /\ file'[d][1].footer
                      /\ read_feather(file'[d][1]) \in Serve(CsvUrl("survival", d))
          /\ IsRead(d) /\ file[d] # <<>> =>
                lastOp'.downloads = 0 /\ lastOp'.net = <<>>]_vars

\* C1's case: the read_df that directly follows a delete_local_copy has
\* downloaded once and recreated the cached file.
C1_Witness ==
    /\ lastOp.op = "read_df" /\ lastOp.note = "deleted"
    /\ lastOp.downloads = 1 /\ lastOp.status = "ok"
    /\ file[lastOp.name] # <<>>

\* C8: a read_df that ends in a transport failure was a read of an absent
\* file, called _download once, made each request once (the failed one
\* last, at most the registry and the table), returned nothing and left no
\* file behind; and every read_df on an absent file downloads.
C8_FailedFetchLeavesNoFile ==
    [][\A d \in Datasets :
          /\ IsRead(d) /\ lastOp'.status = "TransportFailure" =>
                /\ file[d] = <<>> /\ file'[d] = <<>>
                /\ lastOp'.downloads = 1
                /\ Len(lastOp'.net) \in 1..2 /\ NoRepeat(lastOp'.net)
                /\ lastOp'.net[Len(lastOp'.net)] \in
                      {RegistryUrl, CsvUrl("survival", d)}
                /\ lastOp'.df = <<>>
                /\ file' = file
          /\ IsRead(d) /\ file[d] = <<>> => lastOp'.downloads = 1]_vars

\* C8's case: the table request of a read_df failed after the registry
\* request succeeded, and the file is absent.
C8_Witness ==
    /\ lastOp.op = "read_df" /\ lastOp.status = "TransportFailure"
    /\ Len(lastOp.net) = 2
    /\ file[lastOp.name] = <<>>

\* The package and item a call looked up in the registry.
LookedUp(op) ==
    IF op.op = "read_df" THEN <<"survival", op.name>> ELSE <<op.package, op.name>>

InRegistry(reg, pair) == \E r \in reg : r.Package = pair[1] /\ r.Item = pair[2]

\* C3: a call that was served a registry without the pair it looks up ends
\* NotFound after that one request; a call ends NotFound only so, only in
\* download_from_rdatasets or a read_df of flchain or nwtco; and such a call
\* leaves every cached file, present or absent, as it was.
C3_NotFoundLeavesCache ==
    [][/\ lastOp'.registry # <<>>
             /\ ~InRegistry(lastOp'.registry[1], LookedUp(lastOp')) =>
          lastOp'.status = "NotFound"
       /\ lastOp'.status = "NotFound" =>
          /\ lastOp'.registry # <<>>
          /\ ~InRegistry(lastOp'.registry[1], LookedUp(lastOp'))
          /\ lastOp'.net = <<RegistryUrl>>
          /\ lastOp'.df = <<>>
          /\ \/ lastOp'.op = "download_from_rdatasets"
             \/ lastOp'.op = "read_df" /\ lastOp'.name \in {"flchain", "nwtco"}
          /\ file' = file]_vars

\* C3's case: a read_df ended NotFound while the registry held an item of
\* its name in another package, and another dataset's file is cached.
C3_Witness ==
    /\ lastOp.op = "read_df" /\ lastOp.status = "NotFound"
    /\ \E r \in lastOp.registry[1] : r.Item = lastOp.name
    /\ \E d \in Datasets : file[d] # <<>>

\* C2: a raw read_df that returns a table returns the table the first raw
\* read_df returned since the file was last written, whatever reads and
\* checks of any dataset came between.
C2_RawReadRepeats ==
    [][\A d \in Datasets :
          IsRead(d) /\ ~lastOp'.processed /\ lastOp'.status = "ok"
             /\ firstRaw[d] # <<>> =>
          /\ lastOp'.df = firstRaw[d]
          /\ lastOp'.downloads = 0]_vars

\* C2's case: a raw read_df returned a table again, the same one, and the
\* table is the revised one the first read had downloaded.
C2_Witness ==
    /\ lastOp.op = "read_df" /\ lastOp.note = "again"
    /\ lastOp.df = firstRaw[lastOp.name]
    /\ lastOp.df = <<Revised(lastOp.name)>>

\* C4 as claimed: check_integrity directly after a read_df that downloaded
\* returns true, and it returns false on a file whose checksum differs.
C4_Claimed ==
    [][\A d \in Datasets :
          IsCheck(d) =>
             /\ lastOp.op = "read_df" /\ lastOp.name = d /\ lastOp.downloads = 1
                   /\ lastOp.status = "ok" => lastOp'.flag = <<TRUE>>
             /\ file[d] # <<>> /\ Sha256(file[d][1]) # _checksum(d) =>
                   lastOp'.flag = <<FALSE>>]_vars

\* C4 amended: check_integrity directly after a read_df that downloaded
\* returns true exactly when the table downloaded is the one whose file has
\* the recorded checksum (the download itself verifies nothing, so a revised
\* CSV on the mirror gives false); and it returns false on every file that is
\* cut short or otherwise not the recorded file.
C4_IntegrityOfDownload ==
    [][\A d \in Datasets :
          IsCheck(d) =>
             /\ lastOp.op = "read_df" /\ lastOp.name = d /\ lastOp.downloads = 1
                   /\ lastOp.status = "ok" =>
                   lastOp'.flag = <<read_feather(file[d][1]) = Recorded(d)>>
             /\ file[d] # <<>> /\ (~file[d][1].footer \/ file[d][1] # RecordedFile[d]) =>
                   lastOp'.flag = <<FALSE>>]_vars

\* C4's case: check_integrity returned true directly after a download.
C4_Witness ==
    lastOp.op = "check_integrity" /\ lastOp.note = "fresh" /\ lastOp.flag = <<TRUE>>

\* C7: the cached file of a dataset changes only when a read_df of that
\* dataset finds no file and downloads (the file then holds the table the
\* mirror served, verbatim, whether the call returns it raw or processed),
\* when delete_local_copy removes it, or when the environment damages it;
\* every other read_df, every check_integrity and every registry lookup
\* leaves every file as it was.
C7_CacheHoldsRawTable ==
    [][\A d \in Datasets :
          /\ file'[d] # file[d] =>
                \/ /\ IsRead(d) /\ file[d] = <<>> /\ lastOp'.downloads = 1
                   /\ \E t \in Serve(CsvUrl("survival", d)) :
                         /\ file'[d] = <<to_feather(t)>>
                         /\ lastOp'.df = IF lastOp'.processed
                                         THEN <<Process(d, t)>> ELSE <<t>>
                \/ IsDelete(d) /\ file'[d] = <<>>
                \/ lastOp'.op = "damage" /\ lastOp'.name = d
          /\ IsCheck(d) \/ (IsRead(d) /\ file[d] # <<>>)
                \/ lastOp'.op = "download_from_rdatasets" => file' = file]_vars

\* C7's case: a processed read_df downloaded; the file holds the raw table,
\* not the table returned.
C7_Witness ==
    /\ lastOp.op = "read_df" /\ lastOp.processed /\ lastOp.downloads = 1
    /\ lastOp.status = "ok"
    /\ file[lastOp.name] = <<RecordedFile[lastOp.name]>>
    /\ lastOp.df # <<read_feather(file[lastOp.name][1])>>

\* C9: a read_df of a file that exists with another checksum than recorded
\* changes no file, downloads nothing and requests nothing: it returns the
\* table the file holds (transformed if processed), or fails to load a file
\* cut short, and reports no verdict; check_integrity reports false there
\* and changes no file either.
C9_ReadNeverVerifies ==
    [][\A d \in Datasets :
          file[d] # <<>> /\ Sha256(file[d][1]) # _checksum(d) =>
             /\ IsRead(d) =>
                   /\ file' = file
                   /\ lastOp'.downloads = 0 /\ lastOp'.net = <<>>
                   /\ lastOp'.flag = <<>>
                   /\ IF file[d][1].footer
                      THEN /\ lastOp'.status = "ok"
                           /\ lastOp'.df =
                                 IF lastOp'.processed
                                 THEN <<Process(d, read_feather(file[d][1]))>>
                                 ELSE <<read_feather(file[d][1])>>
                      ELSE lastOp'.status = "IOError" /\ lastOp'.df = <<>>
             /\ IsCheck(d) =>
                   /\ file' = file
                   /\ lastOp'.flag = <<FALSE>>
                   /\ lastOp'.net = <<>>]_vars

\* C9's case: read_df returned the revised table from a file whose checksum
\* is not the recorded one, without a download.
C9_Witness ==
    /\ lastOp.op = "read_df" /\ lastOp.downloads = 0 /\ lastOp.status = "ok"
    /\ file[lastOp.name] # <<>>
    /\ Sha256(file[lastOp.name][1]) # _checksum(lastOp.name)
    /\ lastOp.df = <<Revised(lastOp.name)>>

(***************************************************************************)
(* The transforms, read from a cache that holds any raw table.             *)
(***************************************************************************)
\* The last call was a processed read_df of d that returned a table.
Processed(d) ==
    /\ lastOp.op = "read_df" /\ lastOp.name = d /\ lastOp.processed
    /\ lastOp.status = "ok"

\* The raw table the cached file of d holds.
Cached(d) == read_feather(file[d][1])

\* The rows of the raw flchain table with a creatinine, and the j-th of them.
Present(raw) == {i \in 1..Len(raw.rows) : raw.rows[i]["creatinine"].k # "nan"}

Nth(S, j) == CHOOSE i \in S : Cardinality({k \in S : k <= i}) = j

\* C5 as claimed: the processed flchain table has no row with a missing
\* creatinine and a boolean sex column, true exactly on the rows whose raw
\* sex is 'M'.
C5_Claimed ==
    Processed("flchain") =>
        LET out == lastOp.df[1]
            raw == Cached("flchain")
        IN  /\ \A j \in 1..Len(out.rows) : out.rows[j]["creatinine"].k # "nan"
            /\ out.dtypes["sex"] = "bool"
            /\ Len(out.rows) = Cardinality(Present(raw))
            /\ \A j \in 1..Len(out.rows) :
                  out.rows[j]["sex"] =
                      BoolCell(raw.rows[Nth(Present(raw), j)]["sex"].s = "M")

\* C5 amended: the processed flchain table has no row with a missing
\* creatinine, and its sex column is float32 (the boolean sex == 'M' is cast
\* with the other columns): 1.0 exactly on the rows whose raw sex is 'M',
\* 0.0 on the others.
C5_FlchainProcessed ==
    Processed("flchain") =>
        LET out == lastOp.df[1]
            raw == Cached("flchain")
        IN  /\ \A j \in 1..Len(out.rows) : out.rows[j]["creatinine"].k # "nan"
            /\ out.dtypes["sex"] = "float32"
            /\ Len(out.rows) = Cardinality(Present(raw))
            /\ \A j \in 1..Len(out.rows) :
                  /\ out.rows[j]["sex"].k = "float"
                  /\ out.rows[j]["sex"].n \in {0, 1}
                  /\ out.rows[j]["sex"].n = 1 <=>
                        raw.rows[Nth(Present(raw), j)]["sex"].s = "M"

\* C5's case: a processed read of a raw table removed a row without
\* creatinine and kept a row of sex 'M'.
C5_Witness ==
    /\ Processed("flchain")
    /\ Len(lastOp.df[1].rows) < Len(Cached("flchain").rows)
    /\ \E j \in 1..Len(lastOp.df[1].rows) : lastOp.df[1].rows[j]["sex"].n = 1

\* C6: the processed nwtco table has, row for row, instit_2 = instit - 1,
\* histol_2 = histol - 1 and study_4 = study - 3, and none of the columns
\* instit, histol, study, seqno and 'Unnamed: 0'.
C6_NwtcoProcessed ==
    Processed("nwtco") =>
        LET out == lastOp.df[1]
            raw == Cached("nwtco")
            gone == {"instit", "histol", "study", "seqno", "Unnamed: 0"}
        IN  /\ Len(out.rows) = Len(raw.rows)
            /\ \A i \in 1..Len(out.rows) :
                  /\ out.rows[i]["instit_2"].n = raw.rows[i]["instit"].n - 1
                  /\ out.rows[i]["histol_2"].n = raw.rows[i]["histol"].n - 1
                  /\ out.rows[i]["study_4"].n = raw.rows[i]["study"].n - 3
                  /\ DOMAIN out.rows[i] \cap gone = {}
            /\ {"instit_2", "histol_2", "study_4"} \subseteq Range(out.columns)
            /\ Range(out.columns) \cap gone = {}
            /\ DOMAIN out.dtypes \cap gone = {}

\* C6's case: a processed read of a raw nwtco table whose two rows differ in
\* each of the three shifted columns.
C6_Witness ==
    /\ Processed("nwtco")
    /\ Len(lastOp.df[1].rows) = 2
    /\ \A c \in {"instit_2", "histol_2", "study_4"} :
          lastOp.df[1].rows[1][c] # lastOp.df[1].rows[2][c]

\* The columns that both tables have carry the same numbers in rows i and j.
SameRow(out, j, raw, i) ==
    \A c \in (Range(out.columns) \cap Range(raw.columns)) \ {"sex"} :
        /\ out.rows[j][c].n = raw.rows[i][c].n
        /\ out.rows[j][c].s = raw.rows[i][c].s

\* C10: a processed read_df of a complete file returns a table, whatever the
\* raw table is; for nwtco, gbsg and rotterdam it has the rows of the raw
\* table, as many and in the same order; for flchain it has the raw rows
\* whose creatinine is present, in their order, and no others.
C10_OnlyFlchainFilters ==
    \A d \in Datasets :
        lastOp.op = "read_df" /\ lastOp.name = d /\ lastOp.processed =>
            /\ lastOp.status = "ok"
            /\ Len(lastOp.df) = 1
            /\ LET out == lastOp.df[1]
                   raw == Cached(d)
                   keep == IF d = "flchain" THEN Present(raw) ELSE 1..Len(raw.rows)
               IN  /\ Len(out.rows) = Cardinality(keep)
                   /\ \A j \in 1..Len(out.rows) :
                         SameRow(out, j, raw, Nth(keep, j))
                   /\ Range(out.columns) \cap Range(raw.columns) # {}

\* C10's case: a processed read of a dataset other than flchain returned the
\* two rows of its raw table.
C10_Witness ==
    \E d \in Datasets \ {"flchain"} :
        Processed(d) /\ Len(lastOp.df[1].rows) = 2 /\ Len(Cached(d).rows) = 2

====
